---- MODULE Spec2Model ----
(***************************************************************************)
(* Model of the benchmark harness of src/unnamed/part_001: class Task      *)
(* (meassureExecutionTime, run, reset, result) and class Benchmark         *)
(* (constructor, add, run, runRoundRobin).                                 *)
(*                                                                         *)
(* Durations are integer nanoseconds, as the BigInt values of the source.  *)
(* One action is one step of the driving async function: one workload      *)
(* invocation, or the code between two invocations.                        *)
(***************************************************************************)
EXTENDS Integers, Sequences, FiniteSets, TLC

\* ---------------------------------------------------------------- bounds
\* Largest number of tasks registered with add().
MaxTasks == 2
\* Largest number of workload invocations explored in one window of a task.
MaxIter == 3
\* Largest opts.time (milliseconds) the constructor is given.
MaxTimeMs == 1
\* Largest number of promises left pending by workloads at one time.
MaxPending == 2

\* ------------------------------------------------------ program constants
NANOSECONDS_IN_MILLISECOND == 1000000
NANOSECONDS_IN_MICROSECOND == 1000
\* task.run(500, ...) of the warmup loop of Benchmark.run
WarmupMs == 500
\* opts.time || 5000
DefaultTimeMs == 5000

\* The latencies (process.hrtime.bigint() deltas, in ns) one workload
\* invocation can measure: nothing, half a millisecond, and a whole warmup
\* window.
Latencies == {0, 500000, 500000000}

\* opts.time as handed to the constructor; 0 stands for every falsy value
\* (0, undefined, no opts at all).
OptTimes == (-1) .. MaxTimeMs

TaskIds == 1 .. MaxTasks

\* The labels tasks are registered with: two names and one label that is an
\* array index ("1" is a canonical numeric string).
Labels == {"a", "b", "1"}
\* Distinct names, for runs in which the labels play no part
LabelSeq == [t \in TaskIds |-> CASE t = 1 -> "a" [] t = 2 -> "b" [] t = 3 -> "c" [] OTHER -> "d"]

VARIABLES
    numTasks,     \* Benchmark.tasks: tasks 1..numTasks, in registration order
    histogram,    \* Task.histogram, per task: [count, sum] of the recorded deltas
    elapsedTime,  \* Task.elapsedTime, per task (ns)
    timePerTest,  \* Benchmark.timePerTest (ms)
    results,      \* Benchmark.results: sequence of Result
    pc,           \* position of the driving function
    cur,          \* the task of the current loop iteration
    tasksToRun,   \* the Set tasksToRun of runRoundRobin
    mode,         \* the function that was called: "none", "run", "rr"
    trace,        \* history: events emitted and workloads invoked, in order
    winIters,     \* history: per task, workload invocations in its current window
    winTime,      \* history: per task, the time measured in its current window
    lastDelta,    \* history: per task, the delta of its latest invocation
    optTime,      \* history: opts.time as the constructor was given it
    asyncTask,    \* Benchmark.asyncTask
    helper,       \* the Benchmark is the one runBenchmark constructs and drives
    label,        \* Task.label, per task
    setup,        \* per task: Task.setup is a function (not undefined)
    setupOpt,     \* history: per task, it was registered with a setup option
    fnAsync,      \* per task: the workload returns a promise that settles later
    table,        \* the object the latest call of table() returned
    setupCalls,   \* history: per task, the calls of its setup so far
    setupSpent,   \* history: per task, the time spent in its setup so far (ns)
    fnArg,        \* history: per task, the argument of its latest invocation
    inflight,     \* promises returned by workloads and not settled yet
    maxInflight,  \* history: most invocations that were in flight at once
    listeners,    \* the listeners attached with on() to each of the events
    fed,          \* history: the time each invocation of a compared run took
    twin,         \* history: the run this run is compared with
    suspended     \* pc, cur, tasksToRun and mode of a second invocation

\* What the constructor fixes
benchVars == <<optTime, asyncTask, helper>>
\* What add() fixes for a task
taskVars == <<label, setup, setupOpt, fnAsync>>
\* What a workload invocation changes beside the fields of the task
callVars == <<setupCalls, setupSpent, fnArg, inflight, maxInflight, fed>>
\* What on() fixes, and the run kept for a comparison
listenVars == <<listeners, twin>>

vars == <<numTasks, histogram, elapsedTime, timePerTest, results, pc, cur,
          tasksToRun, mode, trace, winIters, winTime, lastDelta, benchVars,
          taskVars, table, callVars, listenVars, suspended>>

Registered == 1 .. numTasks

\* ------------------------------------------------------------------ Task
EmptyHistogram == [count |-> 0, sum |-> 0]

\* BigInt(ms * NANOSECONDS_IN_MILLISECOND)
TargetTimeInNs(ms) == ms * NANOSECONDS_IN_MILLISECOND

\* histogram.record(deltaTime)
Record(h, deltaTime) == [count |-> h.count + 1, sum |-> h.sum + deltaTime]

\* Variant of the loop condition: the elapsed nanoseconds compared with the
\* target in milliseconds.
RunContinuesMs(t, ms) == elapsedTime[t] < ms

\* The loop condition of Task.run
RunContinues(t, ms) == elapsedTime[t] < TargetTimeInNs(ms)

\* Variant of the removal condition: > for >=.
ReachedTargetStrict(elapsed, ms) == elapsed > TargetTimeInNs(ms)

\* The removal condition of runRoundRobin, on the value meassureExecutionTime returns
ReachedTarget(elapsed, ms) == elapsed >= TargetTimeInNs(ms)

\* Variant of reset: the histogram is kept.
KeepHistogram(h) == h

\* Variant of reset: the elapsed time is kept.
KeepElapsed(e) == e

\* Task.reset: the task's fields after it
ResetHistogram(h) == EmptyHistogram
ResetElapsed(e) == 0

\* Task.result: iterations and totalTime; totalTime is kept in whole
\* microseconds (elapsedTime / 1000n), the source divides that by 1000 to ms.
Result(t, h, e) ==
    [label |-> t, iterations |-> h.count, totalTimeUs |-> e \div NANOSECONDS_IN_MICROSECOND]

\* A JavaScript number as far as ops needs it: NaN, Infinity, or the quotient
\* num / den of two integers with den > 0.
NaN == [kind |-> "nan", num |-> 0, den |-> 1]
Infinity == [kind |-> "inf", num |-> 0, den |-> 1]
Quotient(n, d) == [kind |-> "num", num |-> n, den |-> d]

\* The field ops of Task.result: histogram.count / totalTime * 1000, with
\* totalTime in ms. The quotient is kept as iterations / totalTimeUs (operations
\* per microsecond, ops divided by 10^6); a division by the number 0 gives NaN
\* for 0 / 0 and Infinity for a positive dividend.
Ops(r) ==
    IF r.totalTimeUs = 0
       THEN IF r.iterations = 0 THEN NaN ELSE Infinity
       ELSE Quotient(r.iterations, r.totalTimeUs)

\* setupData when the task has no setup: undefined
Undefined == 0

\* The time one call of a setup callback takes (ns)
SetupDurations == {250000}
SetupTimes(t) == IF setup[t] THEN SetupDurations ELSE {0}

\* const setupData = this.setup?.(): the value the call of setup returns is
\* told apart from all earlier ones by its number.
SetupData(t) == IF setup[t] THEN setupCalls[t] + 1 ELSE Undefined

\* The readings of process.hrtime.bigint() in meassureExecutionTime, on a
\* clock that shows 0 when the function is entered, with setup taking
\* setupTime and the workload fnTime: start is read after setup has returned.
StartBeforeSetup(setupTime) == 0
Start(setupTime) == setupTime
End(setupTime, fnTime) == setupTime + fnTime
\* const deltaTime = process.hrtime.bigint() - start
DeltaTime(setupTime, fnTime) == End(setupTime, fnTime) - Start(setupTime)

\* Variant of the call: the promise of a workload is never awaited.
NeverAwaited(t) == FALSE

\* asyncFn ? await this.fn.call(...) : this.fn.call(...): the driving function
\* goes on only after the promise has settled
Awaited(t) == asyncTask

\* The promises pending after the invocation of task t has returned to
\* meassureExecutionTime
Pending(t) == IF fnAsync[t] /\ ~Awaited(t) THEN inflight + 1 ELSE inflight

Max(a, b) == IF a >= b THEN a ELSE b

\* What an invocation of t leaves in the history beside the measurement
Invoked(t) ==
    /\ setupCalls' = [setupCalls EXCEPT ![t] = IF setup[t] THEN @ + 1 ELSE @]
    /\ fnArg' = [fnArg EXCEPT ![t] = SetupData(t)]
    /\ inflight' = Pending(t)
    /\ maxInflight' = Max(maxInflight, inflight + 1)

\* The times of the invocations of a run that is compared with another one
Fed(fnTime) == IF twin.phase = "off" THEN fed ELSE Append(fed, fnTime)

\* Variant of meassureExecutionTime: the delta is recorded and not added to
\* elapsedTime.
MeassureNoAccumulate(t, fnTime) ==
    /\ winIters[t] < MaxIter
    /\ Pending(t) <= MaxPending
    /\ \E setupTime \in SetupTimes(t) :
          LET deltaTime == DeltaTime(setupTime, fnTime)
          IN  /\ histogram' = [histogram EXCEPT ![t] = Record(@, deltaTime)]
              /\ elapsedTime' = elapsedTime
              /\ lastDelta' = [lastDelta EXCEPT ![t] = deltaTime]
              /\ setupSpent' = [setupSpent EXCEPT ![t] = @ + setupTime]
    /\ Invoked(t)
    /\ fed' = Fed(fnTime)
    /\ winIters' = [winIters EXCEPT ![t] = @ + 1]
    /\ winTime' = [winTime EXCEPT ![t] = @ + fnTime]

\* Task.meassureExecutionTime for a workload that takes fnTime, after a setup
\* that takes setupTime when the task has one. The first two conjuncts are
\* the bounds of the exploration, not code: a window is followed for MaxIter
\* invocations, and an invocation while no more than MaxPending promises are
\* left pending. winTime adds up the time the workload itself took.
Meassure(t, fnTime) ==
    /\ winIters[t] < MaxIter
    /\ Pending(t) <= MaxPending
    /\ \E setupTime \in SetupTimes(t) :
          LET deltaTime == DeltaTime(setupTime, fnTime)
          IN  /\ histogram' = [histogram EXCEPT ![t] = Record(@, deltaTime)]
              /\ elapsedTime' = [elapsedTime EXCEPT ![t] = @ + deltaTime]
              /\ lastDelta' = [lastDelta EXCEPT ![t] = deltaTime]
              /\ setupSpent' = [setupSpent EXCEPT ![t] = @ + setupTime]
    /\ Invoked(t)
    /\ fed' = Fed(fnTime)
    /\ winIters' = [winIters EXCEPT ![t] = @ + 1]
    /\ winTime' = [winTime EXCEPT ![t] = @ + fnTime]

\* ------------------------------------------------------------- Benchmark
\* this.timePerTest = opts.time || 5000
Constructor(time) == IF time = 0 THEN DefaultTimeMs ELSE time

\* History records: a workload invocation, and an emitted event (done carries
\* the number of results handed to its listeners).
Call(t, phase) == [ev |-> "call", task |-> t, phase |-> phase, len |-> 0]
Emit(name, t, n) == [ev |-> name, task |-> t, phase |-> "event", len |-> n]

Min(S) == CHOOSE x \in S : \A y \in S : x <= y

\* --------------------------------------------------------- Benchmark.table
\* x > y on JavaScript numbers: false when either is NaN
Greater(x, y) ==
    CASE x.kind = "nan" \/ y.kind = "nan" -> FALSE
      [] x.kind = "inf" -> y.kind = "num"
      [] y.kind = "inf" -> FALSE
      [] OTHER -> x.num * y.den > y.num * x.den

\* x / y on JavaScript numbers that are not negative
Div(x, y) ==
    CASE x.kind = "nan" \/ y.kind = "nan" -> NaN
      [] x.kind = "inf" -> IF y.kind = "inf" THEN NaN ELSE Infinity
      [] y.kind = "inf" -> Quotient(0, 1)
      [] y.num = 0 -> IF x.num = 0 THEN NaN ELSE Infinity
      [] OTHER -> Quotient(x.num * y.den, x.den * y.num)

\* Variant of toFixed(2): the digits after the second one are cut off.
ToFixed2Truncating(x) ==
    CASE x.kind = "nan" -> [text |-> "NaN", hundredths |-> 0]
      [] x.kind = "inf" -> [text |-> "Infinity", hundredths |-> 0]
      [] OTHER -> [text |-> "decimal", hundredths |-> (100 * x.num) \div x.den]

\* Number.prototype.toFixed(2): the text "NaN" or "Infinity", or the decimal
\* with two fraction digits nearest to x, the larger one of two equally near;
\* the decimal is kept as its number of hundredths.
ToFixed2(x) ==
    CASE x.kind = "nan" -> [text |-> "NaN", hundredths |-> 0]
      [] x.kind = "inf" -> [text |-> "Infinity", hundredths |-> 0]
      [] OTHER -> [text |-> "decimal",
                   hundredths |-> (200 * x.num + x.den) \div (2 * x.den)]

\* The cell of a row in its own column
SelfMarker == [text |-> "-", hundredths |-> 0]

\* The comparator of the sort in table(): a.performance.ops >
\* b.performance.ops ? -1 : 0
Compare(a, b) == IF Greater(Ops(a), Ops(b)) THEN -1 ELSE 0

\* Array.prototype.sort as the engine of Node runs it on an array of fewer
\* than 64 elements: the run at the start of the array is found (and
\* reversed when it is strictly descending for the comparator), then every
\* later element is put into the sorted prefix by binary insertion. Only the
\* sign of the comparator is looked at.
RECURSIVE RunLength(_, _, _)
RunLength(a, idx, descending) ==
    IF idx > Len(a) THEN Len(a)
    ELSE LET order == Compare(a[idx], a[idx - 1])
         IN  IF (descending /\ order >= 0) \/ (~descending /\ order < 0)
                THEN idx - 1
                ELSE RunLength(a, idx + 1, descending)

Reverse(a) == [i \in 1 .. Len(a) |-> a[Len(a) + 1 - i]]

CountAndMakeRun(a) ==
    LET descending == Compare(a[2], a[1]) < 0
        n == RunLength(a, 3, descending)
    IN  [run |-> n,
         array |-> IF descending
                      THEN Reverse(SubSeq(a, 1, n)) \o SubSeq(a, n + 1, Len(a))
                      ELSE a]

RECURSIVE InsertionPoint(_, _, _, _)
InsertionPoint(a, pivot, left, right) ==
    IF left >= right THEN left
    ELSE LET mid == left + ((right - left) \div 2)
         IN  IF Compare(pivot, a[mid]) < 0
                THEN InsertionPoint(a, pivot, left, mid)
                ELSE InsertionPoint(a, pivot, mid + 1, right)

RECURSIVE BinaryInsertionSort(_, _)
BinaryInsertionSort(a, start) ==
    IF start > Len(a) THEN a
    ELSE LET pivot == a[start]
             at == InsertionPoint(a, pivot, 1, start)
         IN  BinaryInsertionSort(SubSeq(a, 1, at - 1) \o <<pivot>>
                                    \o SubSeq(a, at, start - 1)
                                    \o SubSeq(a, start + 1, Len(a)),
                                 start + 1)

\* this.results.sort(comparator)
SortResults(rs) ==
    IF Len(rs) < 2 THEN rs
    ELSE LET r == CountAndMakeRun(rs) IN BinaryInsertionSort(r.array, r.run + 1)

\* result.label of a collected result (the model keeps the task in the field
\* label of a result, the task's label is its string)
LabelOf(r) == label[r.label]

\* The keys of a Map or of an object after the keys ks were set in this
\* order: every key once, at the place of its first set
RECURSIVE FirstSet(_)
FirstSet(ks) ==
    IF ks = <<>> THEN <<>>
    ELSE LET front == FirstSet(SubSeq(ks, 1, Len(ks) - 1))
             k == ks[Len(ks)]
         IN  IF \E i \in DOMAIN front : front[i] = k THEN front ELSE Append(front, k)

\* Labels that are array indices, and their numbers
ArrayIndex == [l \in {"1"} |-> 1]

\* The order in which the keys of an object are enumerated: the array indices
\* in ascending numeric order, then the other strings in the order they were
\* created.
RECURSIVE SortedIndices(_)
SortedIndices(S) ==
    IF S = {} THEN <<>>
    ELSE LET k == CHOOSE x \in S : \A y \in S : ArrayIndex[x] <= ArrayIndex[y]
         IN  <<k>> \o SortedIndices(S \ {k})

KeyOrder(ks) ==
    SortedIndices({ks[i] : i \in DOMAIN ks} \cap DOMAIN ArrayIndex)
        \o SelectSeq(ks, LAMBDA k : k \notin DOMAIN ArrayIndex)

\* The value a Map or an object holds for key k after the results rs were set
\* in order under their labels: the last one
LastWith(rs, k) ==
    rs[CHOOSE i \in DOMAIN rs :
           /\ LabelOf(rs[i]) = k
           /\ \A j \in DOMAIN rs : LabelOf(rs[j]) = k => j <= i]

\* The row of table() for the entry of resultMap under label k: the result
\* stored last under k, and one cell per key of its comparisons object
Row(rs, k) ==
    LET result == LastWith(rs, k)
        keys == {LabelOf(rs[i]) : i \in DOMAIN rs}
    IN  [label |-> k,
         result |-> result,
         cells |-> [c \in keys |->
                      IF c = k THEN SelfMarker
                      ELSE ToFixed2(Div(Ops(result), Ops(LastWith(rs, c))))]]

\* The object table() returns for the sorted results rs, as the sequence of
\* its rows in the order its keys are enumerated
BuildTable(rs) ==
    LET keys == KeyOrder(FirstSet([i \in DOMAIN rs |-> LabelOf(rs[i])]))
    IN  [called |-> TRUE, rows |-> [i \in DOMAIN keys |-> Row(rs, keys[i])]]

\* No call of table() yet
NoTable == [called |-> FALSE, rows |-> <<>>]

\* No run is kept for a comparison
NoTwin == [phase |-> "off", listeners |-> 0, mode |-> "none", fed |-> <<>>,
           calls |-> <<>>, histogram |-> <<>>, elapsedTime |-> <<>>,
           results |-> <<>>]

\* An invocation of run or runRoundRobin that was not made yet
NotCalled == [pc |-> "idle", cur |-> 0, tasksToRun |-> {}, mode |-> "none"]

\* The state after new Benchmark(opts), for opts.time among times and
\* opts.async among asyncs; with helper the constructor call is the one of
\* runBenchmark, new Benchmark().
Constructed(times, asyncs, helpers) ==
    /\ numTasks = 0
    /\ histogram = [t \in TaskIds |-> EmptyHistogram]
    /\ elapsedTime = [t \in TaskIds |-> 0]
    /\ optTime \in times
    /\ timePerTest = Constructor(optTime)
    /\ asyncTask \in asyncs
    /\ helper \in helpers
    /\ helper => optTime = 0 /\ ~asyncTask
    /\ results = <<>>
    /\ pc = "idle"
    /\ cur = 0
    /\ tasksToRun = {}
    /\ mode = "none"
    /\ trace = <<>>
    /\ winIters = [t \in TaskIds |-> 0]
    /\ winTime = [t \in TaskIds |-> 0]
    /\ lastDelta = [t \in TaskIds |-> 0]
    /\ label = [t \in TaskIds |-> ""]
    /\ setup = [t \in TaskIds |-> FALSE]
    /\ setupOpt = [t \in TaskIds |-> FALSE]
    /\ fnAsync = [t \in TaskIds |-> FALSE]
    /\ table = NoTable
    /\ setupCalls = [t \in TaskIds |-> 0]
    /\ setupSpent = [t \in TaskIds |-> 0]
    /\ fnArg = [t \in TaskIds |-> Undefined]
    /\ inflight = 0
    /\ maxInflight = 0
    /\ fed = <<>>
    /\ suspended = NotCalled

\* A Benchmark nobody listens to
InitWith(times, asyncs, helpers) ==
    /\ Constructed(times, asyncs, helpers)
    /\ listeners = 0
    /\ twin = NoTwin

\* A Benchmark without the async flag, made by the caller
Init == InitWith(OptTimes, {FALSE}, {FALSE})

\* bench.add(task.label, task.fn) of runBenchmark, for a task object with
\* label l, with or without opts.setup, and a workload that returns a
\* promise or not: the options are not handed to add, Task.setup stays
\* undefined.
AddTaskObject(l, withSetup, promise) ==
    /\ pc = "idle"
    /\ helper
    /\ numTasks < MaxTasks
    /\ numTasks' = numTasks + 1
    /\ label' = [label EXCEPT ![numTasks + 1] = l]
    /\ setup' = [setup EXCEPT ![numTasks + 1] = FALSE]
    /\ setupOpt' = [setupOpt EXCEPT ![numTasks + 1] = withSetup]
    /\ fnAsync' = [fnAsync EXCEPT ![numTasks + 1] = promise]
    /\ UNCHANGED <<histogram, elapsedTime, timePerTest, results, pc, cur,
                   tasksToRun, mode, trace, winIters, winTime, lastDelta,
                   benchVars, table, callVars, listenVars, suspended>>

\* Benchmark.add(l, fn, opts), called before the run by the owner of the
\* Benchmark, with or without opts.setup, for a workload that returns a
\* promise or not
Add(l, withSetup, promise) ==
    /\ pc = "idle"
    /\ ~helper
    /\ numTasks < MaxTasks
    /\ numTasks' = numTasks + 1
    /\ label' = [label EXCEPT ![numTasks + 1] = l]
    /\ setup' = [setup EXCEPT ![numTasks + 1] = withSetup]
    /\ setupOpt' = [setupOpt EXCEPT ![numTasks + 1] = withSetup]
    /\ fnAsync' = [fnAsync EXCEPT ![numTasks + 1] = promise]
    /\ UNCHANGED <<histogram, elapsedTime, timePerTest, results, pc, cur,
                   tasksToRun, mode, trace, winIters, winTime, lastDelta,
                   benchVars, table, callVars, listenVars, suspended>>

\* run() or runRoundRobin() is called once on a Benchmark, after the calls of
\* add(). A measurement is followed when its target lies in the explored
\* range of times: runRoundRobin() from its start, run() from the end of its
\* warmup (the warmup of a run of the default 5000 ms is followed).
CanStart ==
    /\ pc = "idle"
    /\ timePerTest <= MaxTimeMs

\* Benchmark.run, up to its first workload invocation; with no task both
\* loops are empty, done is emitted at once and run returns.
RunStart ==
    /\ pc = "idle"
    /\ mode' = "run"
    /\ IF numTasks = 0
          THEN /\ trace' = Append(trace, Emit("done", 0, Len(results)))
               /\ pc' = "returned"
               /\ cur' = 0
          ELSE /\ trace' = trace
               /\ pc' = "warmup"
               /\ cur' = 1
    /\ UNCHANGED <<numTasks, histogram, elapsedTime, timePerTest, results,
                   tasksToRun, winIters, winTime, lastDelta, benchVars,
                   taskVars, table, callVars, listenVars, suspended>>

\* One iteration of the loop of task.run(500, ...) in the warmup loop
WarmupIter(fnTime) ==
    /\ pc = "warmup"
    /\ RunContinues(cur, WarmupMs)
    /\ Meassure(cur, fnTime)
    /\ trace' = Append(trace, Call(cur, "warmup"))
    /\ UNCHANGED <<numTasks, timePerTest, results, pc, cur, tasksToRun, mode,
                   benchVars, taskVars, table, listenVars, suspended>>

\* task.run(500, ...) returns
WarmupReturn ==
    /\ pc = "warmup"
    /\ ~RunContinues(cur, WarmupMs)
    /\ pc' = "warmed"
    /\ UNCHANGED <<numTasks, histogram, elapsedTime, timePerTest, results, cur,
                   tasksToRun, mode, trace, winIters, winTime, lastDelta,
                   benchVars, taskVars, table, callVars, listenVars,
                   suspended>>

\* Variant of the warmup loop: each task is measured right after its own
\* warmup and reset.
WarmupResetThenMeasure ==
    /\ pc = "warmed"
    /\ histogram' = [histogram EXCEPT ![cur] = ResetHistogram(@)]
    /\ elapsedTime' = [elapsedTime EXCEPT ![cur] = ResetElapsed(@)]
    /\ winIters' = [winIters EXCEPT ![cur] = 0]
    /\ winTime' = [winTime EXCEPT ![cur] = 0]
    /\ lastDelta' = [lastDelta EXCEPT ![cur] = 0]
    /\ pc' = "start"
    /\ cur' = cur
    /\ UNCHANGED <<numTasks, timePerTest, results, tasksToRun, mode, trace,
                   benchVars, taskVars, table, callVars, listenVars,
                   suspended>>

\* task.reset() and the step of the warmup loop to the next task
WarmupReset ==
    /\ pc = "warmed"
    /\ histogram' = [histogram EXCEPT ![cur] = ResetHistogram(@)]
    /\ elapsedTime' = [elapsedTime EXCEPT ![cur] = ResetElapsed(@)]
    /\ winIters' = [winIters EXCEPT ![cur] = 0]
    /\ winTime' = [winTime EXCEPT ![cur] = 0]
    /\ lastDelta' = [lastDelta EXCEPT ![cur] = 0]
    /\ IF cur < numTasks
          THEN pc' = "warmup" /\ cur' = cur + 1
          ELSE pc' = "start" /\ cur' = 1
    /\ UNCHANGED <<numTasks, timePerTest, results, tasksToRun, mode, trace,
                   benchVars, taskVars, table, callVars, listenVars,
                   suspended>>

\* this.emit("task-start", task) of the measurement loop; the second conjunct
\* is the bound of the exploration.
TaskStart ==
    /\ pc = "start"
    /\ timePerTest <= MaxTimeMs
    /\ trace' = Append(trace, Emit("task-start", cur, 0))
    /\ pc' = "measure"
    /\ UNCHANGED <<numTasks, histogram, elapsedTime, timePerTest, results, cur,
                   tasksToRun, mode, winIters, winTime, lastDelta,
                   benchVars, taskVars, table, callVars, listenVars,
                   suspended>>

\* One iteration of the loop of task.run(this.timePerTest, ...)
MeasureIter(fnTime) ==
    /\ pc = "measure"
    /\ RunContinues(cur, timePerTest)
    /\ Meassure(cur, fnTime)
    /\ trace' = Append(trace, Call(cur, "measure"))
    /\ UNCHANGED <<numTasks, timePerTest, results, pc, cur, tasksToRun, mode,
                   benchVars, taskVars, table, listenVars, suspended>>

\* task.run(this.timePerTest, ...) returns
MeasureReturn ==
    /\ pc = "measure"
    /\ ~RunContinues(cur, timePerTest)
    /\ pc' = "measured"
    /\ UNCHANGED <<numTasks, histogram, elapsedTime, timePerTest, results, cur,
                   tasksToRun, mode, trace, winIters, winTime, lastDelta,
                   benchVars, taskVars, table, callVars, listenVars,
                   suspended>>

\* Variant of the push after emit("task-done", ...): the result is kept only
\* when emit returned true, that is when somebody listened.
PushIfHeard(rs, r) == IF listeners > 0 THEN Append(rs, r) ELSE rs

\* this.results.push(result), whatever emit returned
Push(rs, r) == Append(rs, r)

\* Variant of the measurement loop: done is emitted inside the loop, before
\* the task-done of each task.
TaskDoneAfterDone ==
    /\ pc = "measured"
    /\ results' = Push(results, Result(cur, histogram[cur], elapsedTime[cur]))
    /\ trace' = trace \o <<Emit("done", 0, Len(results')),
                            Emit("task-done", cur, 0)>>
    /\ IF cur < numTasks
          THEN pc' = "start" /\ cur' = cur + 1
          ELSE pc' = "returned" /\ cur' = 0
    /\ UNCHANGED <<numTasks, histogram, elapsedTime, timePerTest, tasksToRun,
                   mode, winIters, winTime, lastDelta, benchVars, taskVars,
                   table, callVars, listenVars, suspended>>

\* The result is taken, task-done emitted and the result pushed; after the
\* last task done is emitted and run returns.
TaskDone ==
    /\ pc = "measured"
    /\ results' = Push(results, Result(cur, histogram[cur], elapsedTime[cur]))
    /\ IF cur < numTasks
          THEN /\ trace' = Append(trace, Emit("task-done", cur, 0))
               /\ pc' = "start"
               /\ cur' = cur + 1
          ELSE /\ trace' = trace \o <<Emit("task-done", cur, 0),
                                      Emit("done", 0, Len(results'))>>
               /\ pc' = "returned"
               /\ cur' = 0
    /\ UNCHANGED <<numTasks, histogram, elapsedTime, timePerTest, tasksToRun,
                   mode, winIters, winTime, lastDelta, benchVars, taskVars,
                   table, callVars, listenVars, suspended>>

\* Variant of runRoundRobin: with no task it returns without emitting done.
RoundRobinStartSilent ==
    /\ CanStart
    /\ mode' = "rr"
    /\ tasksToRun' = Registered
    /\ trace' = trace
    /\ IF numTasks = 0
          THEN pc' = "returned" /\ cur' = 0
          ELSE pc' = "rr" /\ cur' = 1
    /\ UNCHANGED <<numTasks, histogram, elapsedTime, timePerTest, results,
                   winIters, winTime, lastDelta, benchVars, taskVars,
                   table, callVars, listenVars, suspended>>

\* Benchmark.runRoundRobin, up to its first workload invocation; with no
\* task the set is empty, done is emitted at once and the function returns.
RoundRobinStart ==
    /\ CanStart
    /\ mode' = "rr"
    /\ tasksToRun' = Registered
    /\ IF numTasks = 0
          THEN /\ trace' = Append(trace, Emit("done", 0, Len(results)))
               /\ pc' = "returned"
               /\ cur' = 0
          ELSE /\ trace' = trace
               /\ pc' = "rr"
               /\ cur' = 1
    /\ UNCHANGED <<numTasks, histogram, elapsedTime, timePerTest, results,
                   winIters, winTime, lastDelta, benchVars, taskVars,
                   table, callVars, listenVars, suspended>>

\* tasksToRun.delete(task) when the task reached the target
Remaining(S, t, reached) == IF reached THEN S \ {t} ELSE S

\* Variant of the for-of loop: the iteration starts over at the first task
\* of the set after every task.
RestartPass(left, t) == Min(left)

\* The task the for-of loop visits after t: the next one of the set in
\* insertion order, and the first one of a new pass when t was the last.
NextInPass(left, t) ==
    IF {u \in left : u > t} # {} THEN Min({u \in left : u > t}) ELSE Min(left)

\* The events one iteration of the for-of body emits
RoundRobinEvents(t, reached) ==
    IF reached THEN <<Call(t, "measure"), Emit("task-done", t, 0)>>
               ELSE <<Call(t, "measure")>>

\* One iteration of the for-of body of runRoundRobin on task cur, and the
\* loop control up to the next workload invocation: the next task of the
\* set in insertion order, or a new pass, or the exit of the while loop.
RoundRobinIter(fnTime) ==
    /\ pc = "rr"
    /\ Meassure(cur, fnTime)
    /\ LET reached == ReachedTarget(elapsedTime'[cur], timePerTest)
           left == Remaining(tasksToRun, cur, reached)
           res == IF reached
                     THEN Push(results, Result(cur, histogram'[cur], elapsedTime'[cur]))
                     ELSE results
       IN  /\ tasksToRun' = left
           /\ results' = res
           /\ IF left = {}
                 THEN /\ trace' = trace \o RoundRobinEvents(cur, reached)
                                        \o <<Emit("done", 0, Len(res))>>
                      /\ pc' = "returned"
                      /\ cur' = 0
                 ELSE /\ trace' = trace \o RoundRobinEvents(cur, reached)
                      /\ pc' = "rr"
                      /\ cur' = NextInPass(left, cur)
    /\ UNCHANGED <<numTasks, timePerTest, mode, benchVars, taskVars, table,
                   listenVars, suspended>>

\* Benchmark.table(), called after the run has returned or was rejected: the
\* results are sorted in place and the table is built from them.
Table ==
    /\ pc \in {"returned", "failed"}
    /\ results' = SortResults(results)
    /\ table' = BuildTable(results')
    /\ UNCHANGED <<numTasks, histogram, elapsedTime, timePerTest, pc, cur,
                   tasksToRun, mode, trace, winIters, winTime, lastDelta,
                   benchVars, taskVars, callVars, listenVars, suspended>>

Next ==
    \/ Add(LabelSeq[numTasks + 1], FALSE, FALSE)
    \/ RunStart
    \/ \E d \in Latencies : WarmupIter(d)
    \/ WarmupReturn
    \/ WarmupReset
    \/ TaskStart
    \/ \E d \in Latencies : MeasureIter(d)
    \/ MeasureReturn
    \/ TaskDone
    \/ RoundRobinStart
    \/ \E d \in Latencies : RoundRobinIter(d)

Spec == Init /\ [][Next]_vars

\* Runs of tasks with labels of every kind, and the table of their results
TableLatencies == {500000, 500000000}

TableNext ==
    \/ \E l \in Labels : Add(l, FALSE, FALSE)
    \/ RunStart
    \/ \E d \in TableLatencies : WarmupIter(d)
    \/ WarmupReturn
    \/ WarmupReset
    \/ TaskStart
    \/ \E d \in TableLatencies : MeasureIter(d)
    \/ MeasureReturn
    \/ TaskDone
    \/ RoundRobinStart
    \/ \E d \in TableLatencies : RoundRobinIter(d)
    \/ Table

TableSpec == Init /\ [][TableNext]_vars

\* Variant of a throwing invocation: the harness catches the error, reports
\* the task as done with what it measured, ends the run and rethrows.
ThrowReported ==
    /\ pc \in {"warmup", "measure", "rr"}
    /\ results' = Push(results, Result(cur, histogram[cur], elapsedTime[cur]))
    /\ trace' = trace \o <<Call(cur, IF pc = "warmup" THEN "warmup" ELSE "measure"),
                            Emit("task-done", cur, 0),
                            Emit("done", 0, Len(results'))>>
    /\ pc' = "failed"
    /\ Invoked(cur)
    /\ fed' = fed
    /\ \E setupTime \in SetupTimes(cur) :
          setupSpent' = [setupSpent EXCEPT ![cur] = @ + setupTime]
    /\ UNCHANGED <<numTasks, histogram, elapsedTime, timePerTest, cur,
                   tasksToRun, mode, winIters, winTime, lastDelta, benchVars,
                   taskVars, table, listenVars, suspended>>

\* A workload invocation that throws (or, awaited, rejects): the call at line
\* 32 of meassureExecutionTime does not return, so nothing is recorded, and
\* with no try/catch in Task.run, Benchmark.run or runRoundRobin the error
\* leaves them all: the promise of the run is rejected. The guards are those
\* of the loop the invocation belongs to.
Throw ==
    /\ pc \in {"warmup", "measure", "rr"}
    /\ pc = "warmup" => RunContinues(cur, WarmupMs)
    /\ pc = "measure" => RunContinues(cur, timePerTest)
    /\ trace' = Append(trace, Call(cur, IF pc = "warmup" THEN "warmup" ELSE "measure"))
    /\ pc' = "failed"
    /\ Invoked(cur)
    /\ fed' = fed
    /\ \E setupTime \in SetupTimes(cur) :
          setupSpent' = [setupSpent EXCEPT ![cur] = @ + setupTime]
    /\ UNCHANGED <<numTasks, histogram, elapsedTime, timePerTest, results, cur,
                   tasksToRun, mode, winIters, winTime, lastDelta, benchVars,
                   taskVars, table, listenVars, suspended>>

\* Runs in which a workload may throw instead of returning after half a
\* millisecond or after a warmup window
FailLatencies == {500000, 500000000}

FailNext ==
    \/ Add(LabelSeq[numTasks + 1], FALSE, FALSE)
    \/ RunStart
    \/ \E d \in FailLatencies : WarmupIter(d)
    \/ WarmupReturn
    \/ WarmupReset
    \/ TaskStart
    \/ \E d \in FailLatencies : MeasureIter(d)
    \/ MeasureReturn
    \/ TaskDone
    \/ RoundRobinStart
    \/ \E d \in FailLatencies : RoundRobinIter(d)
    \/ Throw
    \/ Table

FailSpec == Init /\ [][FailNext]_vars

\* Runs of tasks registered with or without a setup option, by the caller
\* through add() or by runBenchmark from task objects
SetupLatencies == {500000, 500000000}

SetupInit == InitWith(OptTimes, {FALSE}, BOOLEAN)

SetupNext ==
    \/ \E withSetup \in BOOLEAN : Add(LabelSeq[numTasks + 1], withSetup, FALSE)
    \/ \E withSetup \in BOOLEAN : AddTaskObject(LabelSeq[numTasks + 1], withSetup, FALSE)
    \/ RunStart
    \/ \E d \in SetupLatencies : WarmupIter(d)
    \/ WarmupReturn
    \/ WarmupReset
    \/ TaskStart
    \/ \E d \in SetupLatencies : MeasureIter(d)
    \/ MeasureReturn
    \/ TaskDone
    \/ RoundRobinStart
    \/ \E d \in SetupLatencies : RoundRobinIter(d)

SetupSpec == SetupInit /\ [][SetupNext]_vars

\* A promise that a workload returned and the harness did not await settles
Settle ==
    /\ inflight > 0
    /\ inflight' = inflight - 1
    /\ UNCHANGED <<numTasks, histogram, elapsedTime, timePerTest, results, pc,
                   cur, tasksToRun, mode, trace, winIters, winTime, lastDelta,
                   benchVars, taskVars, table, setupCalls, setupSpent, fnArg,
                   maxInflight, fed, listenVars, suspended>>

\* Runs with and without the async flag, of workloads that return a promise
\* or not
AsyncLatencies == {500000, 500000000}
AsyncTimes == {1}

AsyncInit == InitWith(AsyncTimes, BOOLEAN, {FALSE})

AsyncNext ==
    \/ \E promise \in BOOLEAN : Add(LabelSeq[numTasks + 1], FALSE, promise)
    \/ RunStart
    \/ \E d \in AsyncLatencies : WarmupIter(d)
    \/ WarmupReturn
    \/ WarmupReset
    \/ TaskStart
    \/ \E d \in AsyncLatencies : MeasureIter(d)
    \/ MeasureReturn
    \/ TaskDone
    \/ RoundRobinStart
    \/ \E d \in AsyncLatencies : RoundRobinIter(d)
    \/ Settle

AsyncSpec == AsyncInit /\ [][AsyncNext]_vars

\* The numbers of listeners on each of task-start, task-done and done: none,
\* one, several
ListenerCounts == {0, 1, 2}

\* emit(name, ...) calls every listener of the event, in the order of on();
\* a listener that only observes changes nothing of the Benchmark, so what
\* is left of the calls is their number.
Notified ==
    listeners * Cardinality({i \in DOMAIN trace : trace[i].phase = "event"})

\* The same Benchmark is constructed again, with the same tasks and k
\* listeners instead of the present number; what the run that returned has
\* left is kept for the comparison.
Restart(k) ==
    /\ twin.phase = "first"
    /\ pc = "returned"
    /\ k # listeners
    /\ twin' = [phase |-> "second", listeners |-> listeners, mode |-> mode,
                fed |-> fed,
                calls |-> SelectSeq(trace, LAMBDA e : e.ev = "call"),
                histogram |-> histogram, elapsedTime |-> elapsedTime,
                results |-> results]
    /\ listeners' = k
    /\ histogram' = [t \in TaskIds |-> EmptyHistogram]
    /\ elapsedTime' = [t \in TaskIds |-> 0]
    /\ results' = <<>>
    /\ pc' = "idle"
    /\ cur' = 0
    /\ tasksToRun' = {}
    /\ mode' = "none"
    /\ trace' = <<>>
    /\ winIters' = [t \in TaskIds |-> 0]
    /\ winTime' = [t \in TaskIds |-> 0]
    /\ lastDelta' = [t \in TaskIds |-> 0]
    /\ table' = NoTable
    /\ setupCalls' = [t \in TaskIds |-> 0]
    /\ setupSpent' = [t \in TaskIds |-> 0]
    /\ fnArg' = [t \in TaskIds |-> Undefined]
    /\ inflight' = 0
    /\ maxInflight' = 0
    /\ fed' = <<>>
    /\ UNCHANGED <<numTasks, timePerTest, benchVars, taskVars, suspended>>

\* In the second run of a comparison the workloads take the times they took
\* in the first one, and the caller calls the function it called then.
Replays(fnTime) ==
    twin.phase = "second" =>
        /\ Len(fed) < Len(twin.fed)
        /\ twin.fed[Len(fed) + 1] = fnTime

SameMode(m) == twin.phase = "second" => twin.mode = m

\* Two runs of the same tasks with the same latencies, under different
\* numbers of listeners
ListenLatencies == {500000, 500000000}
ListenTimes == {1}

ListenInit ==
    /\ Constructed(ListenTimes, {FALSE}, {FALSE})
    /\ listeners \in ListenerCounts
    /\ twin = [NoTwin EXCEPT !.phase = "first"]

ListenNext ==
    \/ twin.phase = "first" /\ Add(LabelSeq[numTasks + 1], FALSE, FALSE)
    \/ SameMode("run") /\ RunStart
    \/ \E d \in ListenLatencies : Replays(d) /\ WarmupIter(d)
    \/ WarmupReturn
    \/ WarmupReset
    \/ TaskStart
    \/ \E d \in ListenLatencies : Replays(d) /\ MeasureIter(d)
    \/ MeasureReturn
    \/ TaskDone
    \/ SameMode("rr") /\ RoundRobinStart
    \/ \E d \in ListenLatencies : Replays(d) /\ RoundRobinIter(d)
    \/ \E k \in ListenerCounts : Restart(k)

ListenSpec == ListenInit /\ [][ListenNext]_vars

\* History record: a call of table() that returned n rows
TableCall(n) == [ev |-> "table", task |-> 0, phase |-> "table", len |-> n]

\* table() was called
Tabled == \E i \in DOMAIN trace : trace[i].ev = "table"

\* The latest entry of the history is a call of table()
JustTabled == trace # <<>> /\ trace[Len(trace)].ev = "table"

\* Benchmark.table() called by other code of the program while no run has
\* returned: before the run is started, or between two steps of the run
\* (every step ends at an await). table() reads this.results as they are,
\* sorts them in place and builds the rows. One such call is followed in a
\* run.
TableEarly ==
    /\ pc \notin {"returned", "failed"}
    /\ ~Tabled
    /\ results' = SortResults(results)
    /\ table' = BuildTable(results')
    /\ trace' = Append(trace, TableCall(Len(table'.rows)))
    /\ UNCHANGED <<numTasks, histogram, elapsedTime, timePerTest, pc, cur,
                   tasksToRun, mode, winIters, winTime, lastDelta,
                   benchVars, taskVars, callVars, listenVars, suspended>>

\* The end of the loop body of Benchmark.run with a task-done listener that
\* calls table(): the listener runs inside emit("task-done", ...), before
\* the result of the task is pushed.
TaskDoneTabled ==
    /\ pc = "measured"
    /\ LET sorted == SortResults(results)
           rows == BuildTable(sorted)
       IN  /\ table' = rows
           /\ results' = Push(sorted, Result(cur, histogram[cur], elapsedTime[cur]))
           /\ IF cur < numTasks
                 THEN /\ trace' = trace \o <<Emit("task-done", cur, 0),
                                             TableCall(Len(rows.rows))>>
                      /\ pc' = "start"
                      /\ cur' = cur + 1
                 ELSE /\ trace' = trace \o <<Emit("task-done", cur, 0),
                                             TableCall(Len(rows.rows)),
                                             Emit("done", 0, Len(results'))>>
                      /\ pc' = "returned"
                      /\ cur' = 0
    /\ UNCHANGED <<numTasks, histogram, elapsedTime, timePerTest, tasksToRun,
                   mode, winIters, winTime, lastDelta, benchVars, taskVars,
                   callVars, listenVars, suspended>>

\* Benchmark.table() after the run, recorded in the history
TableAfter ==
    /\ pc \in {"returned", "failed"}
    /\ ~JustTabled
    /\ results' = SortResults(results)
    /\ table' = BuildTable(results')
    /\ trace' = Append(trace, TableCall(Len(table'.rows)))
    /\ UNCHANGED <<numTasks, histogram, elapsedTime, timePerTest, pc, cur,
                   tasksToRun, mode, winIters, winTime, lastDelta,
                   benchVars, taskVars, callVars, listenVars, suspended>>

\* Runs during which table() is called, by a listener or by other code
EarlyLatencies == {500000, 500000000}
EarlyTimes == {1}

EarlyInit == InitWith(EarlyTimes, {FALSE}, {FALSE})

EarlyNext ==
    \/ Add(LabelSeq[numTasks + 1], FALSE, FALSE)
    \/ RunStart
    \/ \E d \in EarlyLatencies : WarmupIter(d)
    \/ WarmupReturn
    \/ WarmupReset
    \/ TaskStart
    \/ \E d \in EarlyLatencies : MeasureIter(d)
    \/ MeasureReturn
    \/ TaskDone
    \/ TaskDoneTabled
    \/ RoundRobinStart
    \/ \E d \in EarlyLatencies : RoundRobinIter(d)
    \/ TableEarly
    \/ TableAfter

EarlySpec == EarlyInit /\ [][EarlyNext]_vars

\* History record: the start of a later invocation on the same Benchmark,
\* with the number of results this.results held then
Marker(n) == [ev |-> "again", task |-> 0, phase |-> "again", len |-> n]

\* The invocation of the history is a later one; Carried is the number of
\* results the earlier ones left.
Rerun == trace # <<>> /\ trace[1].ev = "again"
Carried == IF Rerun THEN trace[1].len ELSE 0

\* The caller, after run() or runRoundRobin() has returned, is about to call
\* one of them again on the same Benchmark. Nothing of the Benchmark or of its
\* tasks changes between the two calls: results, histograms and elapsed times
\* stay as the earlier run left them. The history starts again with the new
\* invocation, and one later invocation is followed.
Again ==
    /\ pc = "returned"
    /\ ~Rerun
    /\ pc' = "idle"
    /\ mode' = "none"
    /\ trace' = <<Marker(Len(results))>>
    /\ UNCHANGED <<numTasks, histogram, elapsedTime, timePerTest, results, cur,
                   tasksToRun, winIters, winTime, lastDelta, benchVars,
                   taskVars, table, callVars, listenVars, suspended>>

\* Two invocations, one after the other, on one Benchmark
RerunLatencies == {500000, 500000000}
RerunTimes == {1}

RerunInit == InitWith(RerunTimes, {FALSE}, {FALSE})

RerunNext ==
    \/ ~Rerun /\ Add(LabelSeq[numTasks + 1], FALSE, FALSE)
    \/ RunStart
    \/ \E d \in RerunLatencies : WarmupIter(d)
    \/ WarmupReturn
    \/ WarmupReset
    \/ TaskStart
    \/ \E d \in RerunLatencies : MeasureIter(d)
    \/ MeasureReturn
    \/ TaskDone
    \/ RoundRobinStart
    \/ \E d \in RerunLatencies : RoundRobinIter(d)
    \/ Again

RerunSpec == RerunInit /\ [][RerunNext]_vars

\* History record: the event loop goes from one invocation to the other
Switched == [ev |-> "switch", task |-> 0, phase |-> "switch", len |-> 0]

\* run() or runRoundRobin() is called a second time on the Benchmark before
\* the first call has returned, or the event loop resumes the one of the two
\* invocations that was waiting. Both are async functions driving the same
\* tasks: an invocation gives way at each await (line 44, 139, 158, 165) and
\* the other goes on from where it stood. The fields of the Benchmark and of
\* its tasks are shared; pc, cur, tasksToRun and mode are those of the
\* invocation that is being followed. An invocation is resumed only after the
\* other has called a workload or emitted an event.
Switch ==
    /\ pc # "idle"
    /\ suspended.pc # "returned"
    /\ IF trace = <<>> THEN TRUE ELSE trace[Len(trace)].ev # "switch"
    /\ pc' = suspended.pc
    /\ cur' = suspended.cur
    /\ tasksToRun' = suspended.tasksToRun
    /\ mode' = suspended.mode
    /\ suspended' = [pc |-> pc, cur |-> cur, tasksToRun |-> tasksToRun,
                     mode |-> mode]
    /\ trace' = Append(trace, Switched)
    /\ UNCHANGED <<numTasks, histogram, elapsedTime, timePerTest, results,
                   winIters, winTime, lastDelta, benchVars, taskVars, table,
                   callVars, listenVars>>

\* Two invocations on a Benchmark of one task, the second made before the
\* first has returned or after it
OverlapLatencies == {500000, 500000000}
OverlapTimes == {1}

OverlapInit == InitWith(OverlapTimes, {FALSE}, {FALSE})

OverlapNext ==
    \/ numTasks = 0 /\ Add(LabelSeq[1], FALSE, FALSE)
    \/ RunStart
    \/ \E d \in OverlapLatencies : WarmupIter(d)
    \/ WarmupReturn
    \/ WarmupReset
    \/ TaskStart
    \/ \E d \in OverlapLatencies : MeasureIter(d)
    \/ MeasureReturn
    \/ TaskDone
    \/ RoundRobinStart
    \/ \E d \in OverlapLatencies : RoundRobinIter(d)
    \/ Switch

OverlapSpec == OverlapInit /\ [][OverlapNext]_vars

\* Round-robin runs whose workloads all return with a measured latency of at
\* least 1 ns. The driving loop goes on whenever the awaited invocation has
\* returned, hence the weak fairness of the loop body.
PositiveLatencies == {500000, 750000, 1000000, 500000000}

LiveNext ==
    \/ Add(LabelSeq[numTasks + 1], FALSE, FALSE)
    \/ RoundRobinStart
    \/ \E d \in PositiveLatencies : RoundRobinIter(d)

LiveSpec ==
    /\ Init
    /\ [][LiveNext]_vars
    /\ WF_vars(\E d \in PositiveLatencies : RoundRobinIter(d))

\* ---------------------------------------------------------------- claims
\* Positions of the history
CallsOf(t, phase) == {i \in DOMAIN trace : trace[i] = Call(t, phase)}
AllCallsOf(t) == {i \in DOMAIN trace : trace[i].ev = "call" /\ trace[i].task = t}
EventsOf(name, t) == {i \in DOMAIN trace : trace[i].ev = name /\ trace[i].task = t}
AllCalls == {i \in DOMAIN trace : trace[i].ev = "call"}
AllEvents(name) == {i \in DOMAIN trace : trace[i].ev = name}
IsCall(e) == e.ev = "call"
\* The workload invocations of the history, in order
CallSeq == SelectSeq(trace, IsCall)
ResultsOf(t) == {i \in DOMAIN results : results[i].label = t}

\* The tasks whose measurement is over: Task.run returned for them in
\* sequential mode, runRoundRobin removed them from the active set.
Finished ==
    CASE mode = "run" ->
            {t \in Registered : ResultsOf(t) # {}}
                \cup (IF pc = "measured" THEN {cur} ELSE {})
      [] mode = "rr" -> Registered \ tasksToRun
      [] OTHER -> {}

\* C1: when Task.run(ms) has returned (the warmup call with 500 ms, the
\* measurement call with timePerTest), the task's elapsed time is at least
\* ms * 1000000 nanoseconds.
C1_ElapsedReachesTarget ==
    /\ pc = "warmed" => elapsedTime[cur] >= WarmupMs * NANOSECONDS_IN_MILLISECOND
    /\ pc = "measured" => elapsedTime[cur] >= timePerTest * NANOSECONDS_IN_MILLISECOND

\* C1 witness: a measurement window of 1 ms that took two iterations to return.
C1_Witness ==
    /\ pc = "measured"
    /\ timePerTest = 1
    /\ histogram[cur].count = 2
    /\ elapsedTime[cur] = 1000000

\* C2: when Task.run has returned on a fresh (warmup) or freshly reset
\* (measurement) task, the task has run at least one iteration.
C2_AtLeastOneIteration ==
    pc \in {"warmed", "measured"} => histogram[cur].count >= 1

\* C3: every task whose measurement is over has a last iteration, and its
\* elapsed time without that iteration is strictly below the target. Deltas
\* are never negative, so this gives the second half of the claim too: with
\* two or more iterations the first one alone is below the target, hence a
\* first iteration that reaches the target is the only one.
C3_OvershootAtMostOneIteration ==
    \A t \in Finished :
        /\ elapsedTime[t] - lastDelta[t] < timePerTest * NANOSECONDS_IN_MILLISECOND
        /\ histogram[t].count >= 1

\* C4: in sequential mode every result reports the iterations and the time
\* of the task's measurement window only: the number of workload invocations
\* made in the measurement loop and the time measured in them.
C4_WarmupNotCounted ==
    mode = "run" =>
        \A i \in DOMAIN results :
            /\ results[i].iterations = Cardinality(CallsOf(results[i].label, "measure"))
            /\ results[i].totalTimeUs =
                   winTime[results[i].label] \div NANOSECONDS_IN_MICROSECOND

\* C4 witness: a result of two measured iterations for a task that was
\* invoked in the warmup pass too.
C4_Witness ==
    /\ mode = "run"
    /\ \E i \in DOMAIN results :
          /\ results[i].iterations = 2
          /\ results[i].totalTimeUs = 1000
          /\ CallsOf(results[i].label, "warmup") # {}

\* C5 as claimed: whenever a task has been invoked, the measurement of every
\* task registered before it is over.
C5_TaskByTask ==
    mode = "run" =>
        \A t \in Registered, u \in Registered :
            (t < u /\ AllCallsOf(u) # {}) => t \in Finished

\* C5 amended: in sequential mode all warmup invocations precede all
\* measurement invocations; within each phase the tasks are invoked one
\* after the other in registration order; a task is warmed up only after
\* every earlier task was reset, and measured only after every task was warmed
\* up and every earlier task's result was pushed.
C5_PhaseByPhase ==
    mode = "run" =>
        /\ LET calls == CallSeq
           IN  \A i \in 1 .. (Len(calls) - 1) :
                  /\ (calls[i].phase = "measure" => calls[i + 1].phase = "measure")
                  /\ (calls[i].phase = calls[i + 1].phase =>
                          calls[i].task <= calls[i + 1].task)
        /\ pc \in {"warmup", "warmed"} =>
              \A t \in Registered : t < cur => histogram[t].count = 0 /\ elapsedTime[t] = 0
        /\ pc \in {"start", "measure", "measured"} =>
              /\ \A t \in Registered : CallsOf(t, "warmup") # {}
              /\ Len(results) = cur - 1

\* C5 witness: the second task is being measured after both warmups.
C5_Witness ==
    /\ mode = "run"
    /\ pc = "measure"
    /\ cur = 2
    /\ CallsOf(1, "warmup") # {} /\ CallsOf(2, "warmup") # {}
    /\ CallsOf(1, "measure") # {} /\ CallsOf(2, "measure") # {}

\* C6: in round-robin mode the active tasks before the loop position have
\* run one iteration more than the active tasks from the loop position on,
\* which all have run the same number: one iteration per task and pass, in
\* registration order, so two active tasks never differ by more than 1.
C6_OnePerPass ==
    (mode = "rr" /\ pc = "rr") =>
        /\ cur \in tasksToRun
        /\ \A t \in tasksToRun, u \in tasksToRun :
              /\ ((t < cur) = (u < cur)) => histogram[t].count = histogram[u].count
              /\ (t < cur /\ cur <= u) => histogram[t].count = histogram[u].count + 1

\* C6 witness: the second pass is under way with two active tasks.
C6_Witness ==
    /\ mode = "rr" /\ pc = "rr"
    /\ tasksToRun = {1, 2}
    /\ cur = 2
    /\ histogram[1].count = 2 /\ histogram[2].count = 1

\* C7: in round-robin mode an active task is below the target; a removed
\* task has reached it with its last iteration, has exactly one task-done,
\* emitted right after its last workload invocation, and no invocation after
\* it; an active task has no task-done.
C7_DoneAtFirstReach ==
    mode = "rr" =>
        /\ \A t \in tasksToRun :
              /\ histogram[t].count > 0 =>
                     elapsedTime[t] < timePerTest * NANOSECONDS_IN_MILLISECOND
              /\ EventsOf("task-done", t) = {}
        /\ \A t \in Registered \ tasksToRun :
              /\ elapsedTime[t] >= timePerTest * NANOSECONDS_IN_MILLISECOND
              /\ histogram[t].count > 1 =>
                     elapsedTime[t] - lastDelta[t] < timePerTest * NANOSECONDS_IN_MILLISECOND
              /\ Cardinality(EventsOf("task-done", t)) = 1
              /\ \A i \in EventsOf("task-done", t) :
                    /\ i > 1 /\ trace[i - 1] = Call(t, "measure")
                    /\ \A j \in AllCallsOf(t) : j < i

\* C7 witness: a task was removed after two iterations that add up to the
\* target exactly, and the other task went on running after that.
C7_Witness ==
    /\ mode = "rr" /\ pc = "rr"
    /\ tasksToRun = {2}
    /\ histogram[1].count = 2
    /\ elapsedTime[1] = 1000000
    /\ \E i \in EventsOf("task-done", 1) : \E j \in AllCallsOf(2) : j > i

\* C9: once run() or runRoundRobin() was called with no task registered, it
\* has returned, the history is the single event done with an empty result
\* list, and no result exists.
C9_NoTasksNoOp ==
    (numTasks = 0 /\ mode # "none") =>
        /\ pc = "returned"
        /\ trace = <<Emit("done", 0, 0)>>
        /\ results = <<>>

\* C9 witness: runRoundRobin() was called with no task.
C9_Witness == numTasks = 0 /\ mode = "rr"

\* C9 witness for run()
C9_WitnessRun == numTasks = 0 /\ mode = "run"

\* C10: every task-done event is preceded by a task-start event for the
\* same task.
C10_StartBeforeDone ==
    \A i \in DOMAIN trace :
        trace[i].ev = "task-done" =>
            \E j \in EventsOf("task-start", trace[i].task) : j < i

C11_DoneOnceAtEnd ==
    LET dones == AllEvents("done")
        taskDones == AllEvents("task-done")
    IN  /\ pc # "returned" => dones = {}
        /\ pc = "returned" =>
              /\ dones = {Len(trace)}
              /\ \A t \in Registered : Cardinality(EventsOf("task-done", t)) = 1
              /\ \A i \in taskDones \cup AllCalls : i < Len(trace)
              /\ mode = "run" =>
                    \A i, j \in taskDones : i < j => trace[i].task < trace[j].task

\* A sequential run of MaxTasks tasks returned, each invoked and reported.
C11_Witness ==
    /\ pc = "returned"
    /\ numTasks = MaxTasks
    /\ mode = "run"
    /\ \A t \in Registered : CallsOf(t, "measure") # {}
    /\ Cardinality(AllEvents("task-done")) = MaxTasks

\* C14: a Benchmark given opts.time <= 0 reports an error: the value is not
\* replaced by another duration, and no run goes on with it (no workload is
\* invoked with it and no run returns normally).
C14_InvalidTimeReported ==
    optTime <= 0 =>
        /\ timePerTest = optTime
        /\ AllCalls = {}
        /\ pc # "returned"

\* C15: Task.result() never reports an infinite throughput: with a total time
\* of zero ops is NaN, and otherwise it is a finite number. Stated of the
\* results the harness collected and of result() on every registered task in
\* its current state.
C15_OpsNeverInfinite ==
    LET projections == {results[i] : i \in DOMAIN results}
                       \cup {Result(t, histogram[t], elapsedTime[t]) : t \in Registered}
    IN  \A r \in projections :
            /\ Ops(r).kind # "inf"
            /\ r.totalTimeUs = 0 => Ops(r).kind = "nan"
            /\ r.totalTimeUs # 0 => Ops(r).kind = "num"

\* C16: when a workload throws the run is rejected (pc = "failed") with the
\* throwing invocation as the last entry of the history: no later invocation,
\* no task-done for the failing task and no done; the result list holds
\* exactly one result for each task that was reported done before, with the
\* iterations of its measurement, and a table() called then has these results
\* as its rows.
C16_ThrowAborts ==
    pc = "failed" =>
        /\ trace[Len(trace)].ev = "call"
        /\ trace[Len(trace)].task = cur
        /\ EventsOf("task-done", cur) = {}
        /\ AllEvents("done") = {}
        /\ Len(results) = Cardinality(AllEvents("task-done"))
        /\ \A i \in AllEvents("task-done") : Cardinality(ResultsOf(trace[i].task)) = 1
        /\ \A i \in DOMAIN results :
              results[i].iterations = Cardinality(CallsOf(results[i].label, "measure"))
        /\ table.called =>
              /\ Len(table.rows) = Len(results)
              /\ \A i \in DOMAIN results :
                     \E k \in DOMAIN table.rows : table.rows[k].result = results[i]

\* A workload threw after an earlier task had been reported done, and
\* table() was called afterwards.
C16_Witness ==
    /\ pc = "failed"
    /\ Len(results) >= 1
    /\ CallsOf(cur, "measure") # {}
    /\ table.called

\* The row of the returned table with label k
RowOf(k) == table.rows[CHOOSE i \in DOMAIN table.rows : table.rows[i].label = k]

\* The cell shows exactly the number x
ShowsExactly(cell, x) ==
    CASE x.kind = "nan" -> cell.text = "NaN"
      [] x.kind = "inf" -> cell.text = "Infinity"
      [] OTHER -> cell.text = "decimal" /\ cell.hundredths * x.den = 100 * x.num

\* The cell shows the number x rounded to the nearest hundredth, upwards
\* from the middle
ShowsRounded(cell, x) ==
    CASE x.kind = "nan" -> cell.text = "NaN"
      [] x.kind = "inf" -> cell.text = "Infinity"
      [] OTHER -> /\ cell.text = "decimal"
                  /\ 2 * (100 * x.num - cell.hundredths * x.den) < x.den
                  /\ 2 * (100 * x.num - cell.hundredths * x.den) >= 0 - x.den

\* C12 as stated: in the table of a completed run, for any two tasks A and B
\* with distinct labels the cell of row A in column B is the number
\* ops(A) / ops(B), and the cell of row A in column A is "-".
C12_CellIsRatio ==
    (pc = "returned" /\ table.called) =>
        \A i, j \in DOMAIN results :
            LET A == LabelOf(results[i])
                B == LabelOf(results[j])
            IN  /\ RowOf(A).cells[A] = SelfMarker
                /\ A # B => ShowsExactly(RowOf(A).cells[B],
                                         Div(Ops(results[i]), Ops(results[j])))

\* The labels of the registered tasks are pairwise distinct
DistinctLabels == \A t, u \in Registered : label[t] = label[u] => t = u

\* C12, amended: in the table of a completed run whose tasks have pairwise
\* distinct labels, the cell of row A in column B is ops(A) / ops(B) as
\* toFixed(2) writes it (rounded to two decimals, or NaN or Infinity), and the
\* cell of row A in column A is "-".
C12_CellIsFixedRatio ==
    (pc = "returned" /\ table.called /\ DistinctLabels) =>
        \A i, j \in DOMAIN results :
            LET A == LabelOf(results[i])
                B == LabelOf(results[j])
            IN  /\ RowOf(A).cells[A] = SelfMarker
                /\ A # B => ShowsRounded(RowOf(A).cells[B],
                                         Div(Ops(results[i]), Ops(results[j])))

\* The table of a completed run of two tasks with distinct labels holds a
\* ratio that is not a whole number of hundredths.
C12_Witness ==
    /\ pc = "returned"
    /\ table.called
    /\ DistinctLabels
    /\ \E i, j \in DOMAIN results :
          LET ratio == Div(Ops(results[i]), Ops(results[j]))
          IN  /\ LabelOf(results[i]) # LabelOf(results[j])
              /\ ratio.kind = "num"
              /\ (100 * ratio.num) % ratio.den # 0

\* C13: the rows of the returned table, and the sorted result list, are in
\* descending order of ops, and of two entries with equal ops the task
\* registered first comes first.
C13_RowsDescendingStable ==
    (pc = "returned" /\ table.called) =>
        LET rows == [i \in DOMAIN table.rows |-> table.rows[i].result]
            Ordered(rs) ==
                \A i, j \in DOMAIN rs :
                    i < j => /\ ~Greater(Ops(rs[j]), Ops(rs[i]))
                             /\ ~Greater(Ops(rs[i]), Ops(rs[j]))
                                    => rs[i].label < rs[j].label
        IN  Ordered(rows) /\ Ordered(results)

\* C18: for every task registered with a setup option, through add or
\* through a task object of runBenchmark, setup has been called once for
\* every workload invocation, and the argument of the latest invocation is
\* the value the latest call of setup returned.
C18_SetupBeforeEveryCall ==
    \A t \in Registered :
        setupOpt[t] =>
            /\ setupCalls[t] = Cardinality(AllCallsOf(t))
            /\ AllCallsOf(t) # {} => fnArg[t] = setupCalls[t]

\* C19: the time spent in setup is in no recorded delta and not in the
\* elapsed time: in every state the elapsed time of a task and the sum of its
\* recorded deltas are the time its workload calls took since its last reset.
C19_SetupTimeExcluded ==
    \A t \in Registered :
        /\ elapsedTime[t] = winTime[t]
        /\ histogram[t].sum = winTime[t]

\* A task whose setup took time was measured twice in its window and is done.
C19_Witness ==
    \E i \in DOMAIN results :
        /\ setupSpent[results[i].label] > 0
        /\ results[i].iterations >= 2
        /\ elapsedTime[results[i].label] > 0

\* C17 as stated: never more than one workload invocation in flight.
C17_OneInFlight == maxInflight <= 1

\* C17, amended: when the async flag is set, or when no workload returns a
\* promise, never more than one workload invocation is in flight.
C17_OneInFlightWhenAwaited ==
    (asyncTask \/ \A t \in Registered : ~fnAsync[t]) => maxInflight <= 1

\* With the async flag set, a workload that returns a promise was invoked
\* twice in its window.
C17_Witness ==
    /\ asyncTask
    /\ \E t \in Registered : fnAsync[t] /\ winIters[t] >= 2
    /\ maxInflight = 1

C21_EmptyBeforeDone ==
    \A i \in DOMAIN trace :
        (/\ trace[i].ev = "table"
         /\ \A j \in 1 .. i : trace[j].ev # "done") => trace[i].len = 0

\* C22: in every state of every task, whatever iterations and resets came
\* before, the elapsed time equals the sum of the deltas recorded in the
\* histogram since the last reset, and the histogram count equals the number
\* of iterations measured since the last reset.
C22_ElapsedIsHistogramSum ==
    \A t \in TaskIds :
        /\ elapsedTime[t] = histogram[t].sum
        /\ histogram[t].count = winIters[t]

\* C22 witness: a task that was warmed up and reset has been measured twice
\* since, for half a millisecond each time.
C22_Witness ==
    \E t \in Registered :
        /\ CallsOf(t, "warmup") # {}
        /\ Cardinality(CallsOf(t, "measure")) = 2
        /\ histogram[t].count = 2
        /\ elapsedTime[t] = 1000000

\* C24: whatever runs were completed before on the Benchmark, every result a
\* run produces reports as its iteration count the number of workload
\* invocations made for the task in the measurement phase of that run:
\* nothing of an earlier run is counted. (The claim adds that the time
\* measured in that run reaches the target; the count is the half of it
\* that is stated here.)
C24_NothingCarriedOver ==
    pc = "returned" =>
        \A i \in (Carried + 1) .. Len(results) :
            results[i].iterations =
                Cardinality(CallsOf(results[i].label, "measure"))

\* C25: after any number of completed runs the result list holds exactly one
\* entry per registered task, and so does the list handed to the done
\* listeners.
C25_OneResultPerTask ==
    pc = "returned" =>
        /\ Len(results) = numTasks
        /\ \A t \in Registered : Cardinality(ResultsOf(t)) = 1
        /\ \A i \in AllEvents("done") : trace[i].len = numTasks

\* The invocation (0: the first, 1: the second) that made entry i of the
\* history
Owner(i) ==
    Cardinality({j \in 1 .. i : trace[j].ev = "switch"}) % 2

\* C23: every task has one writer at a time. When run() or runRoundRobin()
\* is called while an earlier call on the same Benchmark has not returned,
\* the measurements of the two invocations are never interleaved on one
\* task: no task is invoked by one invocation, then by the other, then by
\* the first again.
C23_OneWriter ==
    LET calls == AllCalls
    IN  \A i \in calls, j \in calls, k \in calls :
            (/\ i < j
             /\ j < k
             /\ trace[i].task = trace[j].task
             /\ trace[j].task = trace[k].task
             /\ Owner(i) = Owner(k)) => Owner(j) = Owner(i)

====
